---- MODULE Spec2Model ----
(***************************************************************************)
(* Model of the GitHub top-repositories ingestion pipeline (src/3):        *)
(*   - RateLimiter and GithubReposScrapper._make_request (src/3/main.py)   *)
(*   - ClickHouseRepository batch writer (src/3/repo/repo.py)              *)
(*   - GithubReposScrapper.get_repositories fan-out (src/3/main.py)        *)
(*   - the commit loop of _process_repository (src/3/main.py)              *)
(*   - main and process_repositories (src/3/main.py)                       *)
(* The clock is counted in whole seconds; asyncio tasks interleave only at *)
(* their await points, so every action below is one run of a task between  *)
(* two suspension points.                                                  *)
(***************************************************************************)
EXTENDS Integers, Sequences, FiniteSets, TLC

VARIABLES
    \* ---- request executor (src/3/main.py, RateLimiter + _make_request)
    mcr,                \* settings.max_concurrent_requests
    rps,                \* settings.requests_per_second
    now,                \* the event loop's clock, in seconds
    last_request_time,  \* RateLimiter.last_request_time
    rl_lock,            \* RateLimiter._lock: 0 = free, else the holding task
    sem_value,          \* the counter of GithubReposScrapper._semaphore
    pc,                 \* where each request() task is suspended
    held,               \* permits held by the frames of each task
    attempts,           \* network attempts made by each logical request()
    wake,               \* deadline of the asyncio.sleep each task is in
    granted,            \* history: TRUE once the pacing gate has granted once
    response,           \* history: the response the latest step delivered, per task
    \* ---- batch writer (src/3/repo/repo.py, ClickHouseRepository)
    batch_size,         \* settings.batch_size
    batch_queue,        \* self._batch_queue: table name -> rows, oldest first
    w_lock,             \* self._lock: 0 = free, else the holding caller
    wpc,                \* where each caller of the writer is suspended
    flush_tab,          \* index of the table _flush_batch is inserting
    current_batch,      \* current_batch of the running _flush_batch
    failed,             \* history: tables whose latest insert failed, until swapped out again
    appended,           \* history: rows appended to each table by save
    inserted,           \* history: rows the sink accepted, per table
    dropped,            \* history: sum of the logged dropped_count, per table
    \* ---- crawler (src/3/main.py, get_repositories + _process_repository)
    crawl_pc,           \* where get_repositories is
    top_repos,          \* the items _get_top_repositories returned
    tasks,              \* the _process_repository coroutines given to gather
    repositories,       \* what gather collects, one slot per task
    valid_repositories, \* the list get_repositories builds and returns
    errors_logged,      \* the log.error calls of line 202
    \* ---- the commit loop of _process_repository on its own (src/3/main.py)
    agg_commits,        \* the commits _get_repository_commits returned
    agg_pc,             \* "start", "done" or "raised"
    agg_result,         \* authors_commits_list once the loop is done
    \* ---- main and process_repositories (src/3/main.py)
    access_token,       \* whether settings.github.access_token is non-empty
    main_pc,            \* where main() is
    snapshots,          \* the list get_repositories returned: authors per snapshot
    co_next,            \* index of the snapshot the loop of line 229 is at
    total_saved,        \* total_saved of process_repositories
    co_flushes,         \* history: flush_all calls made by process_repositories
    main_log,           \* history: what main() logged at error or warning level
    exit_status,        \* the exit status of the process, -1 while it runs
    http_session,       \* GithubReposScrapper._session: "none", "open", "closed"
    ch_session,         \* the session of the ClickHouse client, likewise
    api_requests,       \* history: requests sent to the GitHub API in this run
    \* ---- histories kept for single specifications
    last_net_start,     \* time of the latest session.request, -1 before the first
    search_failed,      \* whether the search request of the crawl raised
    commits_failed      \* the tasks whose commit request raised

execVars == <<mcr, rps, now, last_request_time, rl_lock, sem_value, pc, held,
              attempts, wake, granted, response>>

writerVars == <<batch_size, batch_queue, w_lock, wpc, flush_tab, current_batch,
                failed, appended, inserted, dropped>>

crawlVars == <<crawl_pc, top_repos, tasks, repositories, valid_repositories,
               errors_logged>>

aggVars == <<agg_commits, agg_pc, agg_result>>

mainVars == <<access_token, main_pc, snapshots, co_next, total_saved, co_flushes,
              main_log, exit_status, http_session, ch_session, api_requests>>

paceVars == <<last_net_start>>

crawlHist == <<search_failed, commits_failed>>

vars == <<execVars, writerVars, crawlVars, aggVars, mainVars, paceVars, crawlHist>>

\* ------------------------------------------------------------------ bounds
NumTasks == 2       \* concurrent request() calls
MaxPermits == 2     \* max_concurrent_requests is drawn from 1..MaxPermits
MaxTime == 7        \* the clock stops advancing here
MaxAttempts == 3    \* cap on the network attempts of one request()
Epoch == 1000       \* datetime.now().timestamp() when the loop clock reads 0

NumCallers == 2     \* concurrent callers of the writer
MaxBatch == 2       \* batch_size is drawn from 1..MaxBatch
MaxAuthors == 2     \* authors_commits_num_today has 0..MaxAuthors entries
MaxSaves == 2       \* cap on the save_repository calls of one run

MaxRepos == 3       \* the search answers with 0..MaxRepos items
MaxRunBatch == 4    \* batch_size of a whole run is drawn from 1..MaxRunBatch
MaxCommitList == 4  \* commits of the commit loop studied on its own
MaxCommits == 1     \* a commit listing has 0..MaxCommits entries

\* one call more than NumTasks where the network starts are timed: two calls
\* queue on the semaphore behind a third
PacedTasks == NumTasks + 1
Tasks == 1..PacedTasks
Callers == 1..NumCallers

Max(a, b) == IF a >= b THEN a ELSE b

\* the step taken delivered no response to the task
NoResponse == [kind |-> "none", status |-> 0, reset |-> 0]
NoResponses == [t \in Tasks |-> NoResponse]

\* ------------------------------------------------------- RateLimiter
\* self.interval = 1.0 / requests_per_second if requests_per_second > 0 else 0
\* (requests_per_second is drawn from {0, 1}: the interval is 0 or 1 second)
interval == IF rps > 0 THEN 1 \div rps ELSE 0

\* (mutant of MustSleep: the gate never delays)
MustSleepNever(time_since_last) == FALSE

\* time_since_last < self.interval  (line 47)
MustSleep(time_since_last) == time_since_last < interval

\* async with self._lock: ... up to the await of line 48, or to the end when
\* no sleep is needed.  The lock is taken only when it is free.
RlAcquire(t) ==
    /\ pc[t] = "start"
    /\ rl_lock = 0
    /\ LET current_time == now
           time_since_last == current_time - last_request_time
       IN IF MustSleep(time_since_last)
          THEN /\ rl_lock' = t
               /\ wake' = [wake EXCEPT ![t] = now + (interval - time_since_last)]
               /\ pc' = [pc EXCEPT ![t] = "rl_sleep"]
               /\ UNCHANGED <<last_request_time, granted>>
          ELSE /\ last_request_time' = now
               /\ granted' = TRUE
               /\ pc' = [pc EXCEPT ![t] = "sem_wait"]
               /\ UNCHANGED <<rl_lock, wake>>
    /\ UNCHANGED <<mcr, rps, now, sem_value, held, attempts>>
    /\ response' = NoResponses

\* asyncio.sleep returns once its delay has passed; line 50 then records the
\* grant and the lock is released.
RlWake(t) ==
    /\ pc[t] = "rl_sleep"
    /\ now >= wake[t]
    /\ last_request_time' = now
    /\ granted' = TRUE
    /\ rl_lock' = 0
    /\ wake' = [wake EXCEPT ![t] = 0]
    /\ pc' = [pc EXCEPT ![t] = "sem_wait"]
    /\ UNCHANGED <<mcr, rps, now, sem_value, held, attempts>>
    /\ response' = NoResponses

\* ------------------------------------------------------- _make_request
\* (mutant of SemFree: a permit is handed out whatever the counter says)
SemFreeAlways(value) == TRUE

\* asyncio.Semaphore.acquire proceeds only while the counter is positive
SemFree(value) == value > 0

\* async with self._semaphore: the permit is taken and the network call of
\* line 89 is issued.
SemAcquire(t) ==
    /\ pc[t] = "sem_wait"
    /\ SemFree(sem_value)
    /\ sem_value' = sem_value - 1
    /\ held' = [held EXCEPT ![t] = @ + 1]
    /\ attempts' = [attempts EXCEPT ![t] = @ + 1]
    /\ pc' = [pc EXCEPT ![t] = "net"]
    /\ UNCHANGED <<mcr, rps, now, last_request_time, rl_lock, wake, granted>>
    /\ response' = NoResponses

\* The outcomes of one network call: a JSON body, an HTTP error status with
\* its X-RateLimit-Reset header (0 when the header is absent, line 98), or a
\* transport failure (aiohttp.ClientError).
WallClock == Epoch + now
Responses ==
    {[kind |-> "json", status |-> 200, reset |-> 0],
     [kind |-> "client_error", status |-> 0, reset |-> 0],
     [kind |-> "status", status |-> 404, reset |-> 0]}
    \cup {[kind |-> "status", status |-> 403, reset |-> r] :
             r \in {0, WallClock + 5, WallClock + 3599}}

\* wait_time = max(0, reset_time - current_time) + 1  (line 100)
WaitTime(reset_time, current_time) == Max(0, reset_time - current_time) + 1

\* (mutant of Retries: the wait has no upper bound)
RetriesAnyWait(r) ==
    /\ r.kind = "status"
    /\ r.status = 403
    /\ WaitTime(r.reset, WallClock) > 0

\* (mutant of Retries: every error status is treated like 403)
RetriesAnyStatus(r) ==
    /\ r.kind = "status"
    /\ WaitTime(r.reset, WallClock) > 0
    /\ WaitTime(r.reset, WallClock) < 3600

\* e.status == 403 and wait_time > 0 and wait_time < 3600  (lines 97, 102)
Retries(r) ==
    /\ r.kind = "status"
    /\ r.status = 403
    /\ WaitTime(r.reset, WallClock) > 0
    /\ WaitTime(r.reset, WallClock) < 3600

\* (mutant of Unwind: only the innermost frame gives its permit back)
UnwindInnermost(t, outcome) ==
    /\ sem_value' = sem_value + (IF held[t] > 0 THEN 1 ELSE 0)
    /\ held' = [held EXCEPT ![t] = 0]
    /\ pc' = [pc EXCEPT ![t] = outcome]

\* Leaving every frame of the task: each frame's `async with self._semaphore`
\* gives its permit back (the frames unwind without suspending).
Unwind(t, outcome) ==
    /\ sem_value' = sem_value + held[t]
    /\ held' = [held EXCEPT ![t] = 0]
    /\ pc' = [pc EXCEPT ![t] = outcome]

\* The response arrives (lines 89-117).
Respond(t, r) ==
    /\ pc[t] = "net"
    /\ response' = [NoResponses EXCEPT ![t] = r]
    /\ IF r.kind = "json"
       THEN Unwind(t, "returned") /\ UNCHANGED wake
       ELSE IF Retries(r)
       THEN /\ attempts[t] < MaxAttempts
            /\ wake' = [wake EXCEPT ![t] = now + WaitTime(r.reset, WallClock)]
            /\ pc' = [pc EXCEPT ![t] = "retry_sleep"]
            /\ UNCHANGED <<sem_value, held>>
       ELSE Unwind(t, "raised") /\ UNCHANGED wake
    /\ UNCHANGED <<mcr, rps, now, last_request_time, rl_lock, attempts, granted>>

\* asyncio.sleep(wait_time) is over: line 105 calls _make_request again,
\* inside the `async with` of the frame that got the 403.
RetryWake(t) ==
    /\ pc[t] = "retry_sleep"
    /\ now >= wake[t]
    /\ wake' = [wake EXCEPT ![t] = 0]
    /\ pc' = [pc EXCEPT ![t] = "start"]
    /\ response' = NoResponses
    /\ UNCHANGED <<mcr, rps, now, last_request_time, rl_lock, sem_value, held,
                   attempts, granted>>

\* A task is cancelled at one of its await points: CancelledError unwinds every
\* frame, releasing the pacing lock and the permits on the way (lines 43, 84, 112).
CancelRequest(t) ==
    /\ pc[t] \in {"start", "rl_sleep", "sem_wait", "net", "retry_sleep"}
    /\ Unwind(t, "cancelled")
    /\ rl_lock' = IF rl_lock = t THEN 0 ELSE rl_lock
    /\ wake' = [wake EXCEPT ![t] = 0]
    /\ response' = NoResponses
    /\ UNCHANGED <<mcr, rps, now, last_request_time, attempts, granted>>

Tick ==
    /\ now < MaxTime
    /\ now' = now + 1
    /\ UNCHANGED <<mcr, rps, last_request_time, rl_lock, sem_value, pc, held,
                   attempts, wake, granted>>
    /\ response' = NoResponses

\* the executor as __init__ leaves it (lines 36-40, 71-72)
ExecutorStartOf(calls) ==
    /\ now = 0
    /\ last_request_time = 0
    /\ rl_lock = 0
    /\ sem_value = mcr
    /\ pc = [t \in Tasks |-> IF t \in calls THEN "start" ELSE "unused"]
    /\ held = [t \in Tasks |-> 0]
    /\ attempts = [t \in Tasks |-> 0]
    /\ wake = [t \in Tasks |-> 0]
    /\ granted = FALSE
    /\ response = NoResponses

\* NumTasks tasks have called request()
ExecutorStart == ExecutorStartOf(1..NumTasks)

\* no network call has started
PacingStart == last_net_start = -1

\* the executor when another component is studied alone
ExecutorIdle == mcr = 1 /\ rps = 0 /\ ExecutorStart

\* ------------------------------------------------------- ClickHouseRepository
\* the keys of self._batch_queue in their insertion order (lines 17-21), the
\* order in which _flush_batch visits them
TableOrder == <<"repositories", "repositories_authors_commits", "repositories_positions">>
Tables == {TableOrder[i] : i \in 1..Len(TableOrder)}

\* the rows of one table are numbered in the order save appends them
NewRows(t, k) == [j \in 1..k |-> appended[t] + j]

\* (mutant of RowsOf: the position row is not queued)
RowsOfNoPosition(t, n) ==
    IF t = "repositories_authors_commits" THEN NewRows(t, n)
    ELSE IF t = "repositories_positions" THEN <<>>
    ELSE NewRows(t, 1)

\* lines 54-56: one repository row, one position row, one row per author
RowsOf(t, n) ==
    IF t = "repositories_authors_commits" THEN NewRows(t, n) ELSE NewRows(t, 1)

\* line 58: any(len(batch) >= self.settings.batch_size ...)
ThresholdReached(q) == \E t \in Tables : Len(q[t]) >= batch_size

\* `async with self._lock` enters only when the lock is free
LockAvailable == w_lock = 0

\* save_repository (lines 24-59).  Below the threshold the call returns at
\* once; at the threshold it calls _flush_batch, which awaits the lock the
\* caller is holding (line 62).
Save(c, n) ==
    /\ wpc[c] \in {"idle", "cancelled"}
    /\ appended["repositories"] < MaxSaves
    /\ LockAvailable
    /\ LET q == [t \in Tables |-> batch_queue[t] \o RowsOf(t, n)]
       IN /\ batch_queue' = q
          /\ appended' = [t \in Tables |-> appended[t] + Len(RowsOf(t, n))]
          /\ IF ThresholdReached(q)
             THEN w_lock' = c /\ wpc' = [wpc EXCEPT ![c] = "flush_wait"]
             ELSE w_lock' = 0 /\ wpc' = [wpc EXCEPT ![c] = "idle"]
    /\ UNCHANGED <<batch_size, flush_tab, current_batch, failed, inserted, dropped>>

\* The caller waiting at line 62 is cancelled: CancelledError leaves the
\* `async with` of line 53, which releases the lock.
CancelSave(c) ==
    /\ wpc[c] = "flush_wait"
    /\ w_lock' = 0
    /\ wpc' = [wpc EXCEPT ![c] = "cancelled"]
    /\ UNCHANGED <<batch_size, batch_queue, flush_tab, current_batch, failed,
                   appended, inserted, dropped>>

\* (mutant of NextTable: empty queues are not skipped)
NextTableAny(q, i) == IF i < Len(TableOrder) THEN i + 1 ELSE 0

\* (mutant of NextTable: the loop ends at a table whose rows were put back)
NextTableUnlessFailed(q, i) ==
    LET later == {j \in (i + 1)..Len(TableOrder) : q[TableOrder[j]] # <<>>}
    IN IF later = {} \/ (i > 0 /\ q[TableOrder[i]] # <<>>) THEN 0
       ELSE CHOOSE j \in later : \A k \in later : j <= k

\* the first table after index i whose queue is not empty, 0 when none (lines 63-65)
NextTable(q, i) ==
    LET later == {j \in (i + 1)..Len(TableOrder) : q[TableOrder[j]] # <<>>}
    IN IF later = {} THEN 0 ELSE CHOOSE j \in later : \A k \in later : j <= k

\* (mutant of Swapped: the swapped-out rows stay in the queue)
SwappedKeeps(batch) == batch

\* self._batch_queue[table_name] = []  (line 69)
Swapped(batch) == <<>>

\* The loop of _flush_batch goes on after table i with the queues q: it swaps
\* out the next non-empty queue and awaits its insert (lines 68-72), or ends
\* and releases the lock.  f are the tables whose insert has failed.
Proceed(c, i, q, f) ==
    LET j == NextTable(q, i)
    IN IF j = 0
       THEN /\ batch_queue' = q
            /\ current_batch' = <<>>
            /\ flush_tab' = 0
            /\ failed' = f
            /\ w_lock' = 0
            /\ wpc' = [wpc EXCEPT ![c] = "idle"]
       ELSE /\ batch_queue' = [q EXCEPT ![TableOrder[j]] = Swapped(@)]
            /\ current_batch' = q[TableOrder[j]]
            /\ flush_tab' = j
            /\ failed' = f \ {TableOrder[j]}
            /\ w_lock' = c
            /\ wpc' = [wpc EXCEPT ![c] = "inserting"]

\* flush_all -> _flush_batch (lines 61-65, 84-85)
FlushAll(c) ==
    /\ wpc[c] \in {"idle", "cancelled"}
    /\ LockAvailable
    /\ Proceed(c, 0, batch_queue, failed)
    /\ UNCHANGED <<batch_size, appended, inserted, dropped>>

\* client.execute returns (line 73)
InsertOk(c) ==
    /\ wpc[c] = "inserting"
    /\ inserted' = [inserted EXCEPT ![TableOrder[flush_tab]] = @ + Len(current_batch)]
    /\ Proceed(c, flush_tab, batch_queue, failed)
    /\ UNCHANGED <<batch_size, appended, dropped>>

\* (mutant of Requeue: the rows of a failed insert are discarded)
RequeueLost(queue, batch) == queue

\* self._batch_queue[table_name].extend(current_batch)  (line 76)
Requeue(queue, batch) == queue \o batch

\* (mutant of Overflows: the cap is applied one row early)
OverflowsAtCap(queue) == Len(queue) >= batch_size * 3

\* len(self._batch_queue[table_name]) > self.settings.batch_size * 3  (line 78)
Overflows(queue) == Len(queue) > batch_size * 3

\* self._batch_queue[table_name][-self.settings.batch_size:]  (line 80)
LastRows(queue) ==
    IF Len(queue) <= batch_size THEN queue
    ELSE SubSeq(queue, Len(queue) - batch_size + 1, Len(queue))

\* dropped_count = len(...) - self.settings.batch_size  (line 79)
DroppedCount(queue) == Len(queue) - batch_size

\* client.execute raises an Exception (lines 74-82)
InsertFail(c) ==
    /\ wpc[c] = "inserting"
    /\ LET t == TableOrder[flush_tab]
           kept == Requeue(batch_queue[t], current_batch)
       IN IF Overflows(kept)
          THEN /\ dropped' = [dropped EXCEPT ![t] = @ + DroppedCount(kept)]
               /\ Proceed(c, flush_tab, [batch_queue EXCEPT ![t] = LastRows(kept)],
                          failed \cup {t})
          ELSE /\ dropped' = dropped
               /\ Proceed(c, flush_tab, [batch_queue EXCEPT ![t] = kept],
                          failed \cup {t})
    /\ UNCHANGED <<batch_size, appended, inserted>>

\* The flushing task is cancelled while it awaits client.execute:
\* CancelledError is no Exception, so line 74 does not catch it, the rows of
\* current_batch go with the frame and the lock is released.
CancelInsert(c) ==
    /\ wpc[c] = "inserting"
    /\ current_batch' = <<>>
    /\ flush_tab' = 0
    /\ w_lock' = 0
    /\ wpc' = [wpc EXCEPT ![c] = "cancelled"]
    /\ UNCHANGED <<batch_size, batch_queue, failed, appended, inserted, dropped>>

\* the writer as __init__ leaves it (lines 13-22)
WriterStart ==
    /\ batch_queue = [t \in Tables |-> <<>>]
    /\ w_lock = 0
    /\ wpc = [c \in Callers |-> "idle"]
    /\ flush_tab = 0
    /\ current_batch = <<>>
    /\ failed = {}
    /\ appended = [t \in Tables |-> 0]
    /\ inserted = [t \in Tables |-> 0]
    /\ dropped = [t \in Tables |-> 0]


\* ------------------------------------------------------- crawler
NoneV == "None"       \* a JSON null
Absent == "absent"    \* a key the JSON object does not have

\* A raw search item, as far as _process_repository reads it: whether its
\* "owner" is null (line 145 then raises AttributeError).
RawItems == [owner_null : BOOLEAN]

\* A raw commit, as far as lines 155-160 read it: "author" is null or an
\* account with a login; "commit"."author" is absent, null or carries a name.
RawCommits ==
    {[author |-> "a", commit_author |-> Absent],
     [author |-> NoneV, commit_author |-> "b"],
     [author |-> NoneV, commit_author |-> Absent],
     [author |-> NoneV, commit_author |-> NoneV]}

RECURSIVE SeqsUpTo(_, _)
SeqsUpTo(S, n) ==
    IF n = 0 THEN {<<>>}
    ELSE LET shorter == SeqsUpTo(S, n - 1)
         IN shorter \cup {Append(q, x) : q \in shorter, x \in S}

\* "commit"."author" is an object without "name"
NoName == "no name"

\* The raw commits the loop can tell apart: "author" is missing or an empty
\* object (Absent), null, or an account with login "a"; "commit"."author" is
\* missing (Absent), null, an object without "name", or carries the name "b".
CommitShapes ==
    [author : {Absent, NoneV, "a"}, commit_author : {Absent, NoneV, NoName, "b"}]

\* `not author` (line 156): null, a missing key (the default {}) and {}
NoAuthor(commit) == commit.author \in {Absent, NoneV}

\* lines 155-160 raise AttributeError on a commit without account whose
\* "commit"."author" is null: None has no get
CommitRaises(commit) == NoAuthor(commit) /\ commit.commit_author = NoneV

\* lines 155-160: the author key of one commit
AuthorName(commit) ==
    IF ~NoAuthor(commit) THEN commit.author
    ELSE IF commit.commit_author \in {Absent, NoName} THEN "Unknown"
    ELSE commit.commit_author

\* (mutant of AuthorCommits: the first commit of an author is not counted)
RECURSIVE AuthorCommitsFromZero(_)
AuthorCommitsFromZero(commits) ==
    IF commits = <<>> THEN <<>>
    ELSE LET before == AuthorCommitsFromZero(SubSeq(commits, 1, Len(commits) - 1))
             name == AuthorName(commits[Len(commits)])
             at == {i \in 1..Len(before) : before[i].author = name}
         IN IF at = {}
            THEN Append(before, [author |-> name, commits_num |-> 0])
            ELSE [i \in 1..Len(before) |->
                     IF i \in at
                     THEN [before[i] EXCEPT !.commits_num = @ + 1]
                     ELSE before[i]]

\* (mutant of AuthorCommits: a commit is added to the last entry only, a
\* commit of another author opens a new entry)
RECURSIVE AuthorCommitsRuns(_)
AuthorCommitsRuns(commits) ==
    IF commits = <<>> THEN <<>>
    ELSE LET before == AuthorCommitsRuns(SubSeq(commits, 1, Len(commits) - 1))
             name == AuthorName(commits[Len(commits)])
         IN IF before # <<>> /\ before[Len(before)].author = name
            THEN [before EXCEPT ![Len(before)].commits_num = @ + 1]
            ELSE Append(before, [author |-> name, commits_num |-> 1])

\* line 162, over the commits in their order: the dict author_commits as the
\* list of its items, in insertion order (lines 164-167)
RECURSIVE AuthorCommits(_)
AuthorCommits(commits) ==
    IF commits = <<>> THEN <<>>
    ELSE LET before == AuthorCommits(SubSeq(commits, 1, Len(commits) - 1))
             name == AuthorName(commits[Len(commits)])
             at == {i \in 1..Len(before) : before[i].author = name}
         IN IF at = {}
            THEN Append(before, [author |-> name, commits_num |-> 1])
            ELSE [i \in 1..Len(before) |->
                     IF i \in at
                     THEN [before[i] EXCEPT !.commits_num = @ + 1]
                     ELSE before[i]]

Exc == [exception |-> TRUE]

\* (mutant of Position: enumerate with its default start of 0)
PositionFromZero(index) == index - 1

\* enumerate(top_repos, 1): the number paired with the index-th item (line 194)
Position(index) == index

\* _get_top_repositories (lines 119-129): the items of the answer, or [] on
\* any failure; get_repositories returns [] for an empty list (lines 186-188),
\* else it creates one coroutine per item, numbered by enumerate(top_repos, 1)
\* (lines 192-195), and awaits gather.
FetchTop(items) ==
    /\ crawl_pc = "start"
    /\ top_repos' = items
    /\ IF items = <<>>
       THEN /\ crawl_pc' = "done"
            /\ UNCHANGED <<tasks, repositories>>
       ELSE /\ crawl_pc' = "gather"
            /\ tasks' = [i \in 1..Len(items) |->
                            [repo_data |-> items[i], position |-> Position(i),
                             at |-> "created"]]
            /\ repositories' = [i \in 1..Len(items) |-> NoneV]
    /\ UNCHANGED <<valid_repositories, errors_logged>>

\* _process_repository up to its await of line 151; line 145 raises on an
\* item without owner.
ProcessStart(i) ==
    /\ crawl_pc = "gather"
    /\ i \in 1..Len(tasks)
    /\ tasks[i].at = "created"
    /\ IF tasks[i].repo_data.owner_null
       THEN /\ tasks' = [tasks EXCEPT ![i].at = "finished"]
            /\ repositories' = [repositories EXCEPT ![i] = Exc]
       ELSE /\ tasks' = [tasks EXCEPT ![i].at = "commits"]
            /\ UNCHANGED repositories
    /\ UNCHANGED <<crawl_pc, top_repos, valid_repositories, errors_logged>>

\* lines 151-180: the commits arrive (an empty list when the request failed,
\* lines 140-142), the authors are counted and the Repository is built, or
\* the loop raises on a malformed commit.
ProcessFinish(i, commits) ==
    /\ crawl_pc = "gather"
    /\ i \in 1..Len(tasks)
    /\ tasks[i].at = "commits"
    /\ tasks' = [tasks EXCEPT ![i].at = "finished"]
    /\ repositories' =
          [repositories EXCEPT ![i] =
              IF \E k \in 1..Len(commits) : CommitRaises(commits[k])
              THEN Exc
              ELSE [item |-> i,
                    position |-> tasks[i].position,
                    authors_commits_num_today |-> AuthorCommits(commits)]]
    /\ UNCHANGED <<crawl_pc, top_repos, valid_repositories, errors_logged>>

\* (mutant of IsException: no result is taken for a failure)
IsExceptionNever(result) == FALSE

\* isinstance(result, Exception)  (line 201)
IsException(result) == result = Exc

\* lines 199-204 over the first k results: the list built so far
RECURSIVE ValidUpTo(_, _)
ValidUpTo(results, k) ==
    IF k = 0 THEN <<>>
    ELSE IF IsException(results[k]) THEN ValidUpTo(results, k - 1)
    ELSE Append(ValidUpTo(results, k - 1), results[k])

\* gather returns once every coroutine has finished; lines 199-207 then
\* filter its results and return.
Collect ==
    /\ crawl_pc = "gather"
    /\ \A i \in 1..Len(tasks) : tasks[i].at = "finished"
    /\ valid_repositories' = ValidUpTo(repositories, Len(repositories))
    /\ errors_logged' =
          Cardinality({i \in 1..Len(repositories) : IsException(repositories[i])})
    /\ crawl_pc' = "done"
    /\ UNCHANGED <<top_repos, tasks, repositories>>

\* (mutant of TopOnError: the failure yields a list of one item)
TopOnErrorOneItem == <<[owner_null |-> FALSE]>>

\* `return []` of line 129, after the search request raised
TopOnError == <<>>

\* _get_top_repositories returns the items of the answer (lines 121-126)
FetchTopOk(items) ==
    /\ FetchTop(items)
    /\ search_failed' = FALSE
    /\ UNCHANGED commits_failed

\* the search request raises: lines 127-129 log and return []
FetchTopFails ==
    /\ FetchTop(TopOnError)
    /\ search_failed' = TRUE
    /\ UNCHANGED commits_failed

\* `return []` of line 142, after the commit request raised
CommitsOnError == <<>>

\* (mutant of CommitsFail: the error of the commit request is not caught)
CommitsFailRaises(i) ==
    /\ crawl_pc = "gather"
    /\ i \in 1..Len(tasks)
    /\ tasks[i].at = "commits"
    /\ tasks' = [tasks EXCEPT ![i].at = "finished"]
    /\ repositories' = [repositories EXCEPT ![i] = Exc]
    /\ commits_failed' = commits_failed \cup {i}
    /\ UNCHANGED <<crawl_pc, top_repos, valid_repositories, errors_logged,
                   search_failed>>

\* the commit request of task i raises: lines 140-142 log and return [],
\* and _process_repository goes on with no commits
CommitsFail(i) ==
    /\ ProcessFinish(i, CommitsOnError)
    /\ commits_failed' = commits_failed \cup {i}
    /\ UNCHANGED search_failed

\* the CancelledError instance gather puts in its results for a coroutine
\* that was cancelled (return_exceptions=True, line 197)
Cancelled == [cancelled |-> TRUE]

\* The task of coroutine i is cancelled before it starts or while it awaits
\* its commits: CancelledError passes `except Exception` of line 140, the task
\* ends cancelled, and gather records a CancelledError as its result.
CancelTask(i) ==
    /\ crawl_pc = "gather"
    /\ i \in 1..Len(tasks)
    /\ tasks[i].at \in {"created", "commits"}
    /\ tasks' = [tasks EXCEPT ![i].at = "finished"]
    /\ repositories' = [repositories EXCEPT ![i] = Cancelled]
    /\ UNCHANGED <<crawl_pc, top_repos, valid_repositories, errors_logged>>

\* before get_repositories is called
CrawlerStart ==
    /\ search_failed = FALSE
    /\ commits_failed = {}
    /\ crawl_pc = "start"
    /\ top_repos = <<>>
    /\ tasks = <<>>
    /\ repositories = <<>>
    /\ valid_repositories = <<>>
    /\ errors_logged = 0

\* the writer when another component is studied alone
WriterIdle == batch_size = 1 /\ WriterStart

\* ------------------------------------------------------- commit aggregation
\* lines 153-167 on the commits of one repository: the loop and the list
\* built from the dict, or the AttributeError of a malformed commit
Aggregate ==
    /\ agg_pc = "start"
    /\ IF \E k \in 1..Len(agg_commits) : CommitRaises(agg_commits[k])
       THEN agg_pc' = "raised" /\ agg_result' = <<>>
       ELSE agg_pc' = "done" /\ agg_result' = AuthorCommits(agg_commits)
    /\ UNCHANGED agg_commits

\* line 153: author_commits = {}
AggregateStart == agg_pc = "start" /\ agg_result = <<>>

\* the commit loop when another component is studied
AggregateIdle == agg_commits = <<>> /\ AggregateStart

\* ------------------------------------------------------- main
\* the task that runs main() is the writer's caller 1
Coordinator == 1

\* main() returns or sys.exit is called: the process ends with this status
Exit(status) == main_pc' = "exited" /\ exit_status' = status

\* lines 256-266 with a token: the scrapper is built with its session and
\* create() is awaited (`aiohttp.AsyncExitStack` resolving); without one,
\* line 259 logs and line 260 returns, so main() ends normally
MainStart ==
    /\ main_pc = "start"
    /\ IF access_token
       THEN /\ main_pc' = "create"
            /\ http_session' = "open"
            /\ UNCHANGED <<main_log, exit_status>>
       ELSE /\ main_log' = main_log \cup {"no_token"}
            /\ Exit(0)
            /\ UNCHANGED http_session
    /\ UNCHANGED <<access_token, snapshots, co_next, total_saved, co_flushes,
                   ch_session, api_requests>>

\* line 262 where the installed aiohttp has no attribute AsyncExitStack: the
\* AttributeError is caught at line 287, logged, and line 289 exits with 1
ExitStackMissing ==
    /\ main_pc = "start"
    /\ access_token
    /\ main_log' = main_log \cup {"exception"}
    /\ Exit(1)
    /\ UNCHANGED <<access_token, snapshots, co_next, total_saved, co_flushes,
                   http_session, ch_session, api_requests>>

\* ClickHouseRepository.create answers the probe `SELECT 1` (repo.py 100-112)
CreateOk ==
    /\ main_pc = "create"
    /\ main_pc' = "crawl"
    /\ ch_session' = "open"
    /\ UNCHANGED <<access_token, snapshots, co_next, total_saved, co_flushes,
                   main_log, exit_status, http_session, api_requests>>

\* (mutant of CreateFail: the failure is logged and the run goes on)
CreateFailGoesOn ==
    /\ main_pc = "create"
    /\ main_log' = main_log \cup {"ch_init"}
    /\ main_pc' = "crawl"
    /\ UNCHANGED <<access_token, snapshots, co_next, total_saved, co_flushes,
                   exit_status, http_session, ch_session, api_requests>>

\* create raises (repo.py 114-116): lines 272-274 log and return; the exit
\* stack calls scrapper.close (lines 213-218) and main() ends normally
CreateFail ==
    /\ main_pc = "create"
    /\ main_log' = main_log \cup {"ch_init"}
    /\ http_session' = "closed"
    /\ Exit(0)
    /\ UNCHANGED <<access_token, snapshots, co_next, total_saved, co_flushes,
                   ch_session, api_requests>>

\* lines 277-285: get_repositories sends the search request and one commit
\* request per snapshot it returns; an empty list is logged and main returns
\* into the exit stack, else process_repositories starts its loop
Crawl(list) ==
    /\ main_pc = "crawl"
    /\ snapshots' = list
    /\ api_requests' = api_requests + 1 + Len(list)
    /\ IF list = <<>>
       THEN /\ main_log' = main_log \cup {"no_repositories"}
            /\ main_pc' = "close"
            /\ UNCHANGED co_next
       ELSE /\ main_pc' = "save"
            /\ co_next' = 1
            /\ UNCHANGED main_log
    /\ UNCHANGED <<access_token, total_saved, co_flushes, exit_status,
                   http_session, ch_session>>

\* lines 229-232: save_repository(repo); when it returns, total_saved += 1
\* and the loop moves on; at the threshold the call does not return
CoSave ==
    /\ main_pc = "save"
    /\ co_next <= Len(snapshots)
    /\ Save(Coordinator, snapshots[co_next])
    /\ IF wpc'[Coordinator] = "idle"
       THEN co_next' = co_next + 1 /\ total_saved' = total_saved + 1
       ELSE UNCHANGED <<co_next, total_saved>>
    /\ UNCHANGED <<access_token, main_pc, snapshots, co_flushes, main_log,
                   exit_status, http_session, ch_session, api_requests>>

\* (mutant of FlushEnded: close does not wait for its flush)
FlushEndedAtOnce == TRUE

\* the flush_all that main() awaits has returned in this step
FlushEnded == wpc'[Coordinator] = "idle"

\* main() once the flush awaited at stage has returned: process_repositories
\* returns and the exit stack calls ch_repo.close (from "flush"); close ends,
\* scrapper.close is called, line 291 logs and main() returns (from
\* "close_flush")
AfterFlush(stage) ==
    IF ~FlushEnded
    THEN main_pc' = stage /\ UNCHANGED exit_status
    ELSE IF stage = "flush"
    THEN main_pc' = "close" /\ UNCHANGED exit_status
    ELSE Exit(0)

\* repo.py 121-127, once the flush_all of close has returned: the session is
\* closed, or closing raises and line 127 logs it; then scrapper.close
Release(stage) ==
    IF FlushEnded /\ stage = "close_flush"
    THEN /\ \/ ch_session' = "closed" /\ UNCHANGED main_log
            \/ ch_session' = "open" /\ main_log' = main_log \cup {"close_error"}
         /\ http_session' = "closed"
    ELSE UNCHANGED <<ch_session, http_session, main_log>>

\* line 239, after the loop: flush_all
CoFlushAll ==
    /\ main_pc = "save"
    /\ co_next > Len(snapshots)
    /\ FlushAll(Coordinator)
    /\ co_flushes' = co_flushes + 1
    /\ AfterFlush("flush")
    /\ Release("flush")
    /\ UNCHANGED <<access_token, snapshots, co_next, total_saved, api_requests>>

\* ClickHouseRepository.close, called by the exit stack (repo.py 118-127):
\* flush_all, then the session is closed
CloseRepository ==
    /\ main_pc = "close"
    /\ FlushAll(Coordinator)
    /\ AfterFlush("close_flush")
    /\ Release("close_flush")
    /\ UNCHANGED <<access_token, snapshots, co_next, total_saved, co_flushes,
                   api_requests>>

\* an insert of the flush main() is waiting for succeeds
CoInsertOk ==
    /\ main_pc \in {"flush", "close_flush"}
    /\ InsertOk(Coordinator)
    /\ AfterFlush(main_pc)
    /\ Release(main_pc)
    /\ UNCHANGED <<access_token, snapshots, co_next, total_saved, co_flushes,
                   api_requests>>

\* an insert of the flush main() is waiting for fails
CoInsertFail ==
    /\ main_pc \in {"flush", "close_flush"}
    /\ InsertFail(Coordinator)
    /\ AfterFlush(main_pc)
    /\ Release(main_pc)
    /\ UNCHANGED <<access_token, snapshots, co_next, total_saved, co_flushes,
                   api_requests>>

\* main() is entered (lines 248-254)
MainBegin ==
    /\ main_pc = "start"
    /\ snapshots = <<>>
    /\ co_next = 0
    /\ total_saved = 0
    /\ co_flushes = 0
    /\ main_log = {}
    /\ exit_status = -1
    /\ http_session = "none"
    /\ ch_session = "none"
    /\ api_requests = 0

\* main() when another component is studied
MainIdle == access_token = TRUE /\ MainBegin

\* ============================================================ specifications
InitExecutor ==
    /\ PacingStart
    /\ mcr \in 1..MaxPermits
    /\ rps \in {0, 1}
    /\ ExecutorStart
    /\ WriterIdle
    /\ CrawlerStart
    /\ AggregateIdle
    /\ MainIdle

InitCrawler ==
    /\ PacingStart
    /\ CrawlerStart
    /\ ExecutorIdle
    /\ WriterIdle
    /\ AggregateIdle
    /\ MainIdle

InitAggregate ==
    /\ PacingStart
    /\ agg_commits \in SeqsUpTo(CommitShapes, MaxCommitList)
    /\ AggregateStart
    /\ ExecutorIdle
    /\ WriterIdle
    /\ CrawlerStart
    /\ MainIdle

InitMain ==
    /\ PacingStart
    /\ access_token \in BOOLEAN
    /\ MainBegin
    /\ batch_size \in 1..MaxRunBatch
    /\ WriterStart
    /\ ExecutorIdle
    /\ CrawlerStart
    /\ AggregateIdle

InitWriter ==
    /\ PacingStart
    /\ batch_size \in 1..MaxBatch
    /\ WriterStart
    /\ ExecutorIdle
    /\ CrawlerStart
    /\ AggregateIdle
    /\ MainIdle

InitPacing ==
    /\ PacingStart
    /\ mcr \in 1..MaxPermits
    /\ rps \in {0, 1}
    /\ ExecutorStartOf(Tasks)
    /\ WriterIdle
    /\ CrawlerStart
    /\ AggregateIdle
    /\ MainIdle

NextExecutor ==
    \/ \E t \in Tasks : RlAcquire(t) /\ UNCHANGED <<writerVars, crawlVars, aggVars, mainVars, paceVars, crawlHist>>
    \/ \E t \in Tasks : RlWake(t) /\ UNCHANGED <<writerVars, crawlVars, aggVars, mainVars, paceVars, crawlHist>>
    \/ \E t \in Tasks : SemAcquire(t) /\ UNCHANGED <<writerVars, crawlVars, aggVars, mainVars, paceVars, crawlHist>>
    \/ \E t \in Tasks : \E r \in Responses : Respond(t, r) /\ UNCHANGED <<writerVars, crawlVars, aggVars, mainVars, paceVars, crawlHist>>
    \/ \E t \in Tasks : RetryWake(t) /\ UNCHANGED <<writerVars, crawlVars, aggVars, mainVars, paceVars, crawlHist>>
    \/ \E t \in Tasks : CancelRequest(t) /\ UNCHANGED <<writerVars, crawlVars, aggVars, mainVars, paceVars, crawlHist>>
    \/ Tick /\ UNCHANGED <<writerVars, crawlVars, aggVars, mainVars, paceVars, crawlHist>>

SpecExecutor == InitExecutor /\ [][NextExecutor]_vars

\* session.request of line 89 is entered at the time now
NetStart(t) == SemAcquire(t) /\ last_net_start' = now

\* The clock advances only when no task can go on without suspending: a task
\* granted by the gate enters the semaphore and session.request at once when
\* a permit is free (lines 82-89 have no suspension point then).
TickPaced == Tick /\ \A t \in Tasks : pc[t] = "sem_wait" => ~SemFree(sem_value)

\* the executor with the time of the latest network start recorded
NextPacing ==
    \/ \E t \in Tasks : RlAcquire(t) /\ UNCHANGED <<writerVars, crawlVars, aggVars, mainVars, paceVars, crawlHist>>
    \/ \E t \in Tasks : RlWake(t) /\ UNCHANGED <<writerVars, crawlVars, aggVars, mainVars, paceVars, crawlHist>>
    \/ \E t \in Tasks : NetStart(t) /\ UNCHANGED <<writerVars, crawlVars, aggVars, mainVars, crawlHist>>
    \/ \E t \in Tasks : \E r \in Responses : Respond(t, r) /\ UNCHANGED <<writerVars, crawlVars, aggVars, mainVars, paceVars, crawlHist>>
    \/ \E t \in Tasks : RetryWake(t) /\ UNCHANGED <<writerVars, crawlVars, aggVars, mainVars, paceVars, crawlHist>>
    \/ \E t \in Tasks : CancelRequest(t) /\ UNCHANGED <<writerVars, crawlVars, aggVars, mainVars, paceVars, crawlHist>>
    \/ TickPaced /\ UNCHANGED <<writerVars, crawlVars, aggVars, mainVars, paceVars, crawlHist>>

SpecPacing == InitPacing /\ [][NextPacing]_vars

NextWriter ==
    \/ \E c \in Callers : \E n \in 0..MaxAuthors : Save(c, n) /\ UNCHANGED <<execVars, crawlVars, aggVars, mainVars, paceVars, crawlHist>>
    \/ \E c \in Callers : CancelSave(c) /\ UNCHANGED <<execVars, crawlVars, aggVars, mainVars, paceVars, crawlHist>>
    \/ \E c \in Callers : FlushAll(c) /\ UNCHANGED <<execVars, crawlVars, aggVars, mainVars, paceVars, crawlHist>>
    \/ \E c \in Callers : InsertOk(c) /\ UNCHANGED <<execVars, crawlVars, aggVars, mainVars, paceVars, crawlHist>>
    \/ \E c \in Callers : InsertFail(c) /\ UNCHANGED <<execVars, crawlVars, aggVars, mainVars, paceVars, crawlHist>>
    \/ \E c \in Callers : CancelInsert(c) /\ UNCHANGED <<execVars, crawlVars, aggVars, mainVars, paceVars, crawlHist>>

SpecWriter == InitWriter /\ [][NextWriter]_vars

NextCrawler ==
    \/ \E items \in SeqsUpTo(RawItems, MaxRepos) :
          FetchTopOk(items) /\ UNCHANGED <<execVars, writerVars, aggVars, mainVars, paceVars>>
    \/ FetchTopFails /\ UNCHANGED <<execVars, writerVars, aggVars, mainVars, paceVars>>
    \/ \E i \in 1..MaxRepos :
          ProcessStart(i) /\ UNCHANGED <<execVars, writerVars, aggVars, mainVars, paceVars, crawlHist>>
    \/ \E i \in 1..MaxRepos : \E commits \in SeqsUpTo(RawCommits, MaxCommits) :
          ProcessFinish(i, commits) /\ UNCHANGED <<execVars, writerVars, aggVars, mainVars, paceVars, crawlHist>>
    \/ \E i \in 1..MaxRepos :
          CommitsFail(i) /\ UNCHANGED <<execVars, writerVars, aggVars, mainVars, paceVars>>
    \/ Collect /\ UNCHANGED <<execVars, writerVars, aggVars, mainVars, paceVars, crawlHist>>

SpecCrawler == InitCrawler /\ [][NextCrawler]_vars

\* get_repositories with per-item tasks that can be cancelled one by one
NextCrawlerCancel ==
    \/ NextCrawler
    \/ \E i \in 1..MaxRepos :
          CancelTask(i) /\ UNCHANGED <<execVars, writerVars, aggVars, mainVars, paceVars, crawlHist>>

SpecCrawlerCancel == InitCrawler /\ [][NextCrawlerCancel]_vars

NextAggregate ==
    Aggregate /\ UNCHANGED <<execVars, writerVars, crawlVars, mainVars, paceVars, crawlHist>>

SpecAggregate == InitAggregate /\ [][NextAggregate]_vars

NextMain ==
    \/ MainStart /\ UNCHANGED <<execVars, writerVars, crawlVars, aggVars, paceVars, crawlHist>>
    \/ ExitStackMissing /\ UNCHANGED <<execVars, writerVars, crawlVars, aggVars, paceVars, crawlHist>>
    \/ CreateOk /\ UNCHANGED <<execVars, writerVars, crawlVars, aggVars, paceVars, crawlHist>>
    \/ CreateFail /\ UNCHANGED <<execVars, writerVars, crawlVars, aggVars, paceVars, crawlHist>>
    \/ \E list \in SeqsUpTo(0..MaxAuthors, MaxSaves) :
          Crawl(list) /\ UNCHANGED <<execVars, writerVars, crawlVars, aggVars, paceVars, crawlHist>>
    \/ CoSave /\ UNCHANGED <<execVars, crawlVars, aggVars, paceVars, crawlHist>>
    \/ CoFlushAll /\ UNCHANGED <<execVars, crawlVars, aggVars, paceVars, crawlHist>>
    \/ CloseRepository /\ UNCHANGED <<execVars, crawlVars, aggVars, paceVars, crawlHist>>
    \/ CoInsertOk /\ UNCHANGED <<execVars, crawlVars, aggVars, paceVars, crawlHist>>
    \/ CoInsertFail /\ UNCHANGED <<execVars, crawlVars, aggVars, paceVars, crawlHist>>

SpecMain == InitMain /\ [][NextMain]_vars

\* The event loop runs a task that can run, and the sink answers every
\* insert within the client's timeout.
SpecMainFair == SpecMain /\ WF_vars(NextMain)

\* ============================================================ request executor
RECURSIVE SumHeld(_)
SumHeld(S) == IF S = {} THEN 0
              ELSE LET t == CHOOSE x \in S : TRUE IN held[t] + SumHeld(S \ {t})

\* the permits held by all frames of all tasks
PermitsHeld == SumHeld(Tasks)
\* the requests that are inside the semaphore-protected section
InSection == {t \in Tasks : held[t] > 0}
\* the tasks that have passed the pacing gate at least once
PastGate == {t \in Tasks : attempts[t] > 0 \/ pc[t] = "sem_wait"}

\* C1: for every interleaving of the concurrent request() calls, the requests
\* holding a concurrency permit, and the permits they hold together, never
\* exceed max_concurrent_requests.
C1_PermitsBounded ==
    /\ Cardinality(InSection) <= mcr
    /\ PermitsHeld <= mcr

\* C1 witness: every permit is in use and another request waits for one.
C1_Witness ==
    /\ PermitsHeld = mcr
    /\ \E t \in Tasks : pc[t] = "sem_wait" /\ held[t] = 0
    /\ \E u \in Tasks : pc[u] = "net"

\* C3 (as claimed): one request() makes at most two network attempts; once its
\* second attempt has been issued the request is in that attempt or has ended,
\* it never waits for a further retry.
C3_AtMostTwoAttempts ==
    \A t \in Tasks :
        /\ attempts[t] <= 2
        /\ attempts[t] = 2 => pc[t] \in {"net", "returned", "raised", "cancelled"}

\* C4 (as claimed): a request that has waited out its first 403 and is the
\* only one holding a permit gets a permit for its single retry, for every
\* max_concurrent_requests >= 1.
C4_RetryGetsPermit ==
    \A t \in Tasks :
        (/\ pc[t] = "sem_wait"
         /\ attempts[t] = 1
         /\ held[t] = 1
         /\ \A u \in Tasks \ {t} : held[u] = 0)
        => SemFree(sem_value)

\* a step in which the pacing gate grants a caller
GrantStep == \E t \in Tasks : pc[t] \in {"start", "rl_sleep"} /\ pc'[t] = "sem_wait"
\* the callers inside the critical section of RateLimiter.acquire
InGate == {t \in Tasks : pc[t] = "rl_sleep"}

\* C5: with requests_per_second > 0, a grant of the pacing gate comes at least
\* one interval after the previous grant, whoever received it, and at most
\* one caller is inside the gate's critical section, holding its lock.
C5_PacingSpacing ==
    [][/\ (GrantStep /\ granted /\ rps > 0)
             => last_request_time' - last_request_time >= interval
       /\ Cardinality(InGate)' <= 1
       /\ \A t \in Tasks : (pc[t] = "rl_sleep")' => (rl_lock = t)']_vars

\* C5 witness: two callers were granted, the later one after the gate made it
\* wait for the interval.
C5_Witness ==
    /\ rps > 0
    /\ Cardinality(PastGate) >= 2
    /\ last_request_time >= interval
    /\ last_request_time > 0

\* the step delivered response r to task t
Delivered(t, r) == pc[t] = "net" /\ response'[t] = r
\* the request of task t ended by raising, having made no further attempt
RaisedAtOnce(t) == pc'[t] = "raised" /\ attempts'[t] = attempts[t]
\* the requests that are in progress
InProgress == {t \in Tasks : pc[t] \notin {"unused", "returned", "raised", "cancelled"}}

\* C11: a 403 whose wait time max(0, reset - now) + 1 is 3600 seconds or more
\* is not retried: the attempt that received it is the request's last one and
\* the request raises the error.
C11_LongWaitNotRetried ==
    [][\A t \in Tasks : \A r \in Responses :
          (/\ Delivered(t, r)
           /\ r.kind = "status" /\ r.status = 403
           /\ Max(0, r.reset - WallClock) + 1 >= 3600)
             => RaisedAtOnce(t)]_vars

\* C11 witness: a request whose only attempt was answered 403 with a wait of
\* exactly 3600 seconds has raised.
C11_Witness ==
    \E t \in Tasks :
        /\ pc[t] = "raised"
        /\ attempts[t] = 1
        /\ response[t].status = 403
        /\ Max(0, response[t].reset - WallClock) + 1 = 3600

\* C12: a response with a status of 400 or more other than 403, and a
\* transport failure, are never retried: the attempt that received it is the
\* request's last one and the request raises the error.
C12_OtherErrorsNotRetried ==
    [][\A t \in Tasks : \A r \in Responses :
          (/\ Delivered(t, r)
           /\ \/ r.kind = "client_error"
              \/ r.kind = "status" /\ r.status >= 400 /\ r.status # 403)
             => RaisedAtOnce(t)]_vars

\* C12 witness: one request has raised after a single attempt, and another
\* has just raised on a 404 after a single attempt.
C12_Witness ==
    \E t, u \in Tasks :
        /\ t # u
        /\ pc[t] = "raised" /\ attempts[t] = 1
        /\ pc[u] = "raised" /\ attempts[u] = 1
        /\ response[u].kind = "status" /\ response[u].status = 404

\* C13: every permit a request acquired is given back when the request
\* leaves by success, error or cancellation: a request that has left holds no
\* permit, and whenever no request is in progress all max_concurrent_requests
\* permits are available.
C13_PermitsReleased ==
    /\ \A t \in Tasks : t \notin InProgress => held[t] = 0
    /\ InProgress = {} => sem_value = mcr

\* C13 witness: no request is in progress; one was cancelled after it had
\* acquired a permit, one returned after a retry that held two permits.
C13_Witness ==
    /\ InProgress = {}
    /\ mcr >= 2
    /\ \E t, u \in Tasks :
          /\ pc[t] = "cancelled" /\ attempts[t] >= 1
          /\ pc[u] = "returned" /\ attempts[u] >= 2

\* a step in which task t enters session.request
NetStartStep(t) == pc[t] = "sem_wait" /\ pc'[t] = "net"

\* C23 (as claimed): with requests_per_second > 0, every network call starts
\* at least one pacing interval after the network call that started before
\* it, whichever tasks issued them.
C23_NetworkStartsSpaced ==
    [][\A t \in Tasks :
          (NetStartStep(t) /\ rps > 0 /\ last_net_start >= 0)
              => now - last_net_start >= interval]_vars

\* C26 (as claimed): a 403 without X-RateLimit-Reset header (the reset time
\* read as 0) is not retried: the attempt that received it is the request's
\* last one and the request raises the error.
C26_NoHeaderNotRetried ==
    [][\A t \in Tasks : \A r \in Responses :
          (/\ Delivered(t, r)
           /\ r.kind = "status" /\ r.status = 403
           /\ r.reset = 0)
             => RaisedAtOnce(t)]_vars

\* C27 (as claimed): every network attempt, the throttle retry included, comes
\* after a grant of the pacing gate to that task and then the acquisition of
\* one permit, and when the attempt ends, whatever its outcome, the task
\* holds no permit any more.
C27_GrantPermitAttemptRelease ==
    [][\A t \in Tasks :
          /\ (pc'[t] = "sem_wait" /\ pc[t] # "sem_wait") =>
                 /\ pc[t] \in {"start", "rl_sleep"}
                 /\ last_request_time' = now
          /\ NetStartStep(t) => held'[t] = held[t] + 1
          /\ (pc'[t] = "net" /\ pc[t] # "net") => pc[t] = "sem_wait"
          /\ (pc[t] = "net" /\ pc'[t] # "net") => held'[t] = 0]_vars

\* C29 (as claimed): no request waits for a permit that can never come: it is
\* never so that every request in progress is waiting at the semaphore
\* while the semaphore has no permit left.
C29_NoPermitDeadlock ==
    ~(/\ InProgress # {}
      /\ \A t \in InProgress : pc[t] = "sem_wait"
      /\ ~SemFree(sem_value))

\* ============================================================ batch writer
AllEmpty == \A t \in Tables : batch_queue[t] = <<>>
IsPrefix(a, b) == Len(a) <= Len(b) /\ SubSeq(b, 1, Len(a)) = a
\* a step in which the insert of table t fails
FailStep(t) == t \in failed' /\ t \notin failed
\* a step in which _flush_batch swaps out the queue of table t
SwapStep(t) == flush_tab' # 0 /\ flush_tab' # flush_tab /\ TableOrder[flush_tab'] = t
\* a step in which caller c returns from flush_all
FlushReturns(c) == wpc[c] = "inserting" /\ wpc'[c] = "idle"

\* C2 (as claimed): a save() that brought a queue to batch_size goes on to
\* flush all three queues before it returns: the lock its flush has to take is
\* available to it.
C2_ThresholdSaveFlushes ==
    \A c \in Callers : wpc[c] = "flush_wait" => LockAvailable

\* C30 (as claimed): no caller waits for the writer lock while it holds that
\* lock itself, so every save that was started returns with the lock free.
C30_LockNotAwaitedByHolder ==
    \A c \in Callers : ~(w_lock = c /\ wpc[c] = "flush_wait")

\* no caller is inside the loop of _flush_batch
NoFlushInProgress == \A c \in Callers : wpc[c] # "inserting"

\* C31 (as claimed): whenever no flush is in progress, every table has as many
\* rows appended by save_repository as were inserted, are queued or were
\* counted in a logged overflow drop, taken together.
C31_RowsConserved ==
    NoFlushInProgress =>
        \A t \in Tables :
            appended[t] = inserted[t] + Len(batch_queue[t]) + dropped[t]

\* C7 (as claimed): a flush_all() call returns with all three queues empty.
C7_FlushAllEmpties ==
    [][\A c \in Callers : FlushReturns(c) => AllEmpty']_vars

\* C7 (amended): a flush_all() call in which no bulk insert failed returns
\* with all three queues empty.
C7_FlushAllEmptiesUnlessFailed ==
    [][\A c \in Callers : (FlushReturns(c) /\ failed' = {}) => AllEmpty']_vars

\* C7 witness: rows were saved, a flush without failure has sent them and has
\* returned, and the queues are empty.
C7_Witness ==
    /\ \A c \in Callers : wpc[c] = "idle"
    /\ w_lock = 0
    /\ failed = {}
    /\ \A t \in Tables : inserted[t] > 0
    /\ AllEmpty

\* C8 (as claimed): a queue never holds more than 3 x batch_size rows, and it
\* is longer than batch_size only when its latest insert failed and no flush
\* has taken it since.
C8_QueueCapped ==
    \A t \in Tables :
        /\ Len(batch_queue[t]) <= 3 * batch_size
        /\ Len(batch_queue[t]) > batch_size => t \in failed

\* C9: when the insert of a table fails and the backlog is not above
\* 3 x batch_size, the queue of that table becomes exactly the rows that were
\* swapped out, in their order; the swap takes the whole queue; and every
\* other step leaves the queued rows where they are and only adds rows
\* behind them.
C9_RequeuedAtFront ==
    [][\A t \in Tables :
         /\ (FailStep(t) /\ Len(batch_queue[t]) + Len(current_batch) <= 3 * batch_size)
               => batch_queue'[t] = current_batch
         /\ SwapStep(t)
               => current_batch' = batch_queue[t] /\ batch_queue'[t] = <<>>
         /\ (~FailStep(t) /\ ~SwapStep(t))
               => IsPrefix(batch_queue[t], batch_queue'[t])]_vars

\* C9 witness: a flush has ended, a table's insert failed in it and its rows
\* are queued again, none dropped.
C9_Witness ==
    \E t \in Tables :
        /\ t \in failed
        /\ w_lock = 0
        /\ dropped[t] = 0
        /\ inserted[t] = 0
        /\ Len(batch_queue[t]) = appended[t]
        /\ appended[t] > 0

\* C10: when after a failed insert the retained queue has L > 3 x batch_size
\* rows it becomes its last batch_size rows and L - batch_size is logged as
\* dropped; with L <= 3 x batch_size no row is removed and nothing is logged;
\* no other step logs a drop.
C10_OverflowTruncation ==
    [][\A t \in Tables :
         LET kept == batch_queue[t] \o current_batch
             L == Len(kept)
         IN /\ (FailStep(t) /\ L > 3 * batch_size)
                  => /\ batch_queue'[t] = SubSeq(kept, L - batch_size + 1, L)
                     /\ dropped'[t] = dropped[t] + (L - batch_size)
            /\ (FailStep(t) /\ L <= 3 * batch_size)
                  => /\ batch_queue'[t] = kept
                     /\ dropped'[t] = dropped[t]
            /\ ~FailStep(t) => dropped'[t] = dropped[t]]_vars

\* C10 witness: an overflow has been truncated and its drop count logged.
C10_Witness ==
    \E t \in Tables :
        /\ dropped[t] > 0
        /\ Len(batch_queue[t]) = batch_size
        /\ w_lock = 0

\* the tables after index i whose queue is not empty
LaterNonEmpty(i) == {j \in (i + 1)..Len(TableOrder) : batch_queue[TableOrder[j]] # <<>>}
\* a step in which the sink accepts the insert of table t
InsertOkStep(t) == inserted'[t] # inserted[t]
\* a step in which save_repository appends the rows of a snapshot
SaveStep == appended' # appended
\* the rows of table t numbered from + 1 to to
RowsFromTo(from, to) == [j \in 1..(to - from) |-> from + j]

\* C16: during a flush every table whose queue is not empty gets exactly one
\* bulk insert, carrying exactly the rows queued when the table is reached;
\* no insert is issued for an empty queue; after an insert that succeeded none
\* of its rows is still queued.
C16_OneInsertPerTable ==
    [][/\ \A t \in Tables : SwapStep(t) =>
              /\ batch_queue[t] # <<>>
              /\ current_batch' = batch_queue[t]
              /\ LaterNonEmpty(flush_tab) # {}
              /\ \A k \in LaterNonEmpty(flush_tab) : flush_tab' <= k
       /\ (flush_tab # 0 /\ flush_tab' = flush_tab) => current_batch' = current_batch
       /\ \A c \in Callers : FlushReturns(c) => LaterNonEmpty(flush_tab) = {}
       /\ \A t \in Tables : InsertOkStep(t) =>
              /\ t = TableOrder[flush_tab]
              /\ inserted'[t] - inserted[t] = Len(current_batch)
              /\ \A k \in 1..Len(current_batch) : \A m \in 1..Len(batch_queue'[t]) :
                     batch_queue'[t][m] # current_batch[k]]_vars

\* C16 witness: a flush is inserting the third table after the insert of the
\* first succeeded and the second, whose queue was empty, was passed over.
C16_Witness ==
    /\ flush_tab = 3
    /\ current_batch # <<>>
    /\ appended["repositories_authors_commits"] = 0
    /\ inserted["repositories"] >= 1
    /\ batch_queue["repositories"] = <<>>

\* C17: when the insert of one table fails, the same flush goes on with the
\* other tables exactly as it would have: the next non-empty queue is swapped
\* out and sent whole, or the flush returns when there is none; no other
\* queue is changed and only the rows of the failing table are queued again.
C17_FailureLeavesOthers ==
    [][\A t \in Tables : FailStep(t) =>
          /\ t = TableOrder[flush_tab]
          /\ IF LaterNonEmpty(flush_tab) = {}
             THEN flush_tab' = 0 /\ w_lock' = 0
             ELSE /\ flush_tab' \in LaterNonEmpty(flush_tab)
                  /\ \A k \in LaterNonEmpty(flush_tab) : flush_tab' <= k
                  /\ current_batch' = batch_queue[TableOrder[flush_tab']]
                  /\ batch_queue'[TableOrder[flush_tab']] = <<>>
          /\ \A u \in Tables \ {t} :
                 (flush_tab' = 0 \/ u # TableOrder[flush_tab'])
                     => batch_queue'[u] = batch_queue[u]
          /\ inserted' = inserted]_vars

\* C17 witness: a flush has returned in which the insert of the first table
\* failed and the insert of the third succeeded: the first queue holds its
\* rows again, the third is empty.
C17_Witness ==
    /\ w_lock = 0
    /\ failed = {"repositories"}
    /\ batch_queue["repositories"] # <<>>
    /\ inserted["repositories_positions"] >= 1
    /\ batch_queue["repositories_positions"] = <<>>

FailedItems == {i \in 1..Len(repositories) : repositories[i] = Exc}
\* the returned snapshots of the item at rank i
SnapshotsOf(i) ==
    {k \in 1..Len(valid_repositories) :
        valid_repositories[k] # Exc /\ valid_repositories[k].item = i}

\* C6: when get_repositories has returned for a non-empty top list, it
\* returned exactly one snapshot for every fetched item whose enrichment did
\* not raise and none for the items that raised, every snapshot carries the
\* 1-based rank of its item in the fetched list, and one error was logged
\* per item that raised.
C6_FailuresIsolated ==
    (crawl_pc = "done" /\ top_repos # <<>>) =>
        /\ \A i \in 1..Len(top_repos) :
              Cardinality(SnapshotsOf(i)) = (IF i \in FailedItems THEN 0 ELSE 1)
        /\ Len(valid_repositories) = Len(top_repos) - Cardinality(FailedItems)
        /\ \A k \in 1..Len(valid_repositories) :
              /\ valid_repositories[k] # Exc
              /\ valid_repositories[k].item \in 1..Len(top_repos)
              /\ valid_repositories[k].position = valid_repositories[k].item
        /\ errors_logged = Cardinality(FailedItems)

\* C6 witness: three items were fetched, the second raised, the crawl
\* returned the other two.
C6_Witness ==
    /\ crawl_pc = "done"
    /\ Len(top_repos) = 3
    /\ FailedItems = {2}
    /\ Len(valid_repositories) = 2


\* the i-th coroutine has finished and its result is a snapshot
IsSnapshot(i) == tasks[i].at = "finished" /\ repositories[i] \notin {Exc, Cancelled}

\* C14: within one crawl the positions are exactly 1..n for the n items of the
\* ranked list, all different, given to the per-item tasks when they are
\* created (before any of them runs) and never changed; the position of every
\* snapshot, in gather's results and in the returned list, is the rank of its
\* item, in whatever order the tasks complete.
C14_PositionsAreRanks ==
    [][/\ (crawl_pc = "start" /\ crawl_pc' = "gather") =>
             /\ Len(tasks') = Len(top_repos')
             /\ {tasks'[i].position : i \in 1..Len(tasks')} = 1..Len(top_repos')
             /\ \A i, j \in 1..Len(tasks') :
                    i # j => tasks'[i].position # tasks'[j].position
             /\ \A i \in 1..Len(tasks') :
                    tasks'[i].position = i /\ tasks'[i].at = "created"
       /\ \A i \in 1..Len(tasks) : tasks'[i].position = tasks[i].position
       /\ \A i \in 1..Len(repositories') :
              IsSnapshot(i)' =>
                  repositories'[i].item = i /\ repositories'[i].position = i
       /\ \A k \in 1..Len(valid_repositories') :
              valid_repositories'[k].position = valid_repositories'[k].item]_vars

\* C14 witness: of three items the last has completed with position 3 while
\* the first has not started, and the second has completed with position 2.
C14_Witness ==
    /\ crawl_pc = "gather"
    /\ Len(tasks) = 3
    /\ tasks[1].at = "created"
    /\ IsSnapshot(2) /\ repositories[2].position = 2
    /\ IsSnapshot(3) /\ repositories[3].position = 3

\* a step in which the commit request of task i fails
CommitsFailStep(i) == i \in commits_failed' /\ i \notin commits_failed

\* C24: when the commit request of one repository fails, the coroutine of that
\* repository still ends with a snapshot that has no authors and the position
\* the task was created with, the tasks and results of the other repositories
\* are left as they are, and the list get_repositories returns holds every
\* snapshot of gather's results, this one included.
C24_FailedCommitsGiveEmptySnapshot ==
    [][/\ \A i \in 1..Len(tasks) :
              CommitsFailStep(i) =>
                  /\ IsSnapshot(i)'
                  /\ repositories'[i].authors_commits_num_today = <<>>
                  /\ repositories'[i].position = tasks[i].position
                  /\ repositories'[i].position = i
                  /\ \A j \in 1..Len(tasks) :
                         j # i => /\ tasks'[j] = tasks[j]
                                  /\ repositories'[j] = repositories[j]
       /\ (crawl_pc = "gather" /\ crawl_pc' = "done") =>
              /\ \A i \in 1..Len(tasks) :
                     IsSnapshot(i) =>
                         \E k \in 1..Len(valid_repositories') :
                             valid_repositories'[k] = repositories[i]
              /\ \A i \in commits_failed :
                     \E k \in 1..Len(valid_repositories') :
                         /\ valid_repositories'[k].position = i
                         /\ valid_repositories'[k].authors_commits_num_today = <<>>]_vars

\* C24 witness: of three repositories the commit request of the second failed;
\* all three are returned, the second without authors, the first with one.
C24_Witness ==
    /\ crawl_pc = "done"
    /\ commits_failed = {2}
    /\ Len(valid_repositories) = 3
    /\ valid_repositories[2].position = 2
    /\ valid_repositories[2].authors_commits_num_today = <<>>
    /\ valid_repositories[1].authors_commits_num_today # <<>>

\* a value of the returned list is a Repository
IsRepository(result) == "position" \in DOMAIN result

\* C32 (as claimed): the list get_repositories returns holds nothing but
\* snapshots of fetched items, each with the rank of its item, in strictly
\* increasing order of position, whichever per-item tasks completed, raised
\* or were cancelled, in whatever order.
C32_ReturnedListOrdered ==
    crawl_pc = "done" =>
        /\ \A k \in 1..Len(valid_repositories) :
               /\ IsRepository(valid_repositories[k])
               /\ valid_repositories[k].item \in 1..Len(top_repos)
               /\ valid_repositories[k].position = valid_repositories[k].item
        /\ \A k, l \in 1..Len(valid_repositories) :
               k < l => valid_repositories[k].position
                            < valid_repositories[l].position

\* C25: when the search request fails, _get_top_repositories returns the
\* empty list, get_repositories ends at once with the empty list, and no
\* per-repository coroutine (so no commit request) was created.
C25_FailedSearchGivesEmptyCrawl ==
    search_failed =>
        /\ crawl_pc = "done"
        /\ top_repos = <<>>
        /\ tasks = <<>>
        /\ repositories = <<>>
        /\ valid_repositories = <<>>
        /\ commits_failed = {}
        /\ errors_logged = 0

\* C25 witness: the search request has failed and get_repositories returned
C25_Witness == search_failed /\ crawl_pc = "done"


\* ============================================================ commit aggregation
\* the author key the rule gives a commit: the login if the commit has one,
\* else the author name of the raw commit metadata if present, else "Unknown"
RuleKey(commit) ==
    IF commit.author \notin {Absent, NoneV} THEN commit.author
    ELSE IF commit.commit_author \notin {Absent, NoneV, NoName}
    THEN commit.commit_author
    ELSE "Unknown"
\* the number of commits the rule counts under key
RuleCount(key) ==
    Cardinality({k \in 1..Len(agg_commits) : RuleKey(agg_commits[k]) = key})
\* the number of commits the aggregation counted under key
Counted(key) ==
    LET at == {i \in 1..Len(agg_result) : agg_result[i].author = key}
    IN IF at = {} THEN 0 ELSE agg_result[CHOOSE i \in at : TRUE].commits_num

\* C15 (as claimed): every commit is counted under its login if it has one,
\* else under the author name of its raw commit metadata if present, else
\* under "Unknown": the aggregation of any commit list ends with one entry
\* per such key, holding the number of commits with that key.
C15_AuthorKeyRule ==
    agg_pc # "start" =>
        /\ agg_pc = "done"
        /\ \A key \in {"a", "b", "Unknown"} : Counted(key) = RuleCount(key)
        /\ \A i, j \in 1..Len(agg_result) :
               i # j => agg_result[i].author # agg_result[j].author

\* the commit list with the commits at i and j exchanged
Exchanged(commits, i, j) ==
    [k \in 1..Len(commits) |->
        IF k = i THEN commits[j] ELSE IF k = j THEN commits[i] ELSE commits[k]]
\* the entries of an author list, their order left out
Entries(list) == {list[i] : i \in 1..Len(list)}
\* the pairs of places of the commit list
Pairs == {ij \in (1..Len(agg_commits)) \X (1..Len(agg_commits)) : ij[1] < ij[2]}

\* C28 (as claimed): the aggregation of the commit list with any two commits
\* exchanged gives the very list of author counts that the aggregation of the
\* commit list gave.
C28_OrderNotObservable ==
    agg_pc = "done" =>
        \A ij \in Pairs :
            AuthorCommits(Exchanged(agg_commits, ij[1], ij[2])) = agg_result

\* C28 (amended): the aggregation of the commit list with any two commits
\* exchanged (so, of every permutation) raises exactly when the aggregation of
\* the commit list raised, and else gives the same author counts: as many
\* entries, and the same entries, whatever their order in the list.
C28_SameCountsAnyOrder ==
    agg_pc # "start" =>
        \A ij \in Pairs :
            LET other == Exchanged(agg_commits, ij[1], ij[2])
            IN /\ (agg_pc = "raised") <=>
                      (\E k \in 1..Len(other) : CommitRaises(other[k]))
               /\ agg_pc = "done" =>
                      /\ Len(AuthorCommits(other)) = Len(agg_result)
                      /\ Entries(AuthorCommits(other)) = Entries(agg_result)

\* C28 witness: three commits of two authors were counted, and exchanging
\* the first and the last gives the same entries in another order.
C28_Witness ==
    /\ agg_pc = "done"
    /\ Len(agg_commits) = 3
    /\ agg_result = <<[author |-> "a", commits_num |-> 2],
                      [author |-> "b", commits_num |-> 1]>>
    /\ AuthorCommits(Exchanged(agg_commits, 1, 3))
          = <<[author |-> "b", commits_num |-> 1],
              [author |-> "a", commits_num |-> 2]>>

\* the author keys of the commits of the list
AuthorKeys == {AuthorName(agg_commits[k]) : k \in 1..Len(agg_commits)}
\* the sum of the commits_num of the entries of an author list
RECURSIVE SumCommits(_)
SumCommits(list) ==
    IF list = <<>> THEN 0
    ELSE list[Len(list)].commits_num + SumCommits(SubSeq(list, 1, Len(list) - 1))

\* C33: when the commit loop has ended without raising, its result has one
\* entry for each author key of the commit list and no other, no two entries
\* with the same author, every entry counts at least one commit, and the
\* counts add up to the number of commits.
C33_OneEntryPerAuthor ==
    agg_pc = "done" =>
        /\ {agg_result[i].author : i \in 1..Len(agg_result)} = AuthorKeys
        /\ Len(agg_result) = Cardinality(AuthorKeys)
        /\ \A i, j \in 1..Len(agg_result) :
               i # j => agg_result[i].author # agg_result[j].author
        /\ \A i \in 1..Len(agg_result) : agg_result[i].commits_num >= 1
        /\ SumCommits(agg_result) = Len(agg_commits)

\* C33 witness: four commits of three author keys were counted, one key twice.
C33_Witness ==
    /\ agg_pc = "done"
    /\ Len(agg_commits) = 4
    /\ Len(agg_result) = 3
    /\ AuthorKeys = {"a", "b", "Unknown"}
    /\ \E i \in 1..Len(agg_result) : agg_result[i].commits_num = 2


\* ============================================================ main
\* process_repositories has returned
CoordinatorFinished == co_flushes > 0 /\ main_pc \in {"close", "close_flush", "exited"}

\* C19 (as claimed): process_repositories saves every snapshot once, one
\* after the other in list order, then calls flush_all exactly once, and when
\* it has finished no rows are left in any queue: no save call keeps it from
\* going on, and once it has returned every snapshot was saved, flush_all was
\* called once and the three queues are empty.
C19_SavesAllThenFlushesOnce ==
    /\ main_pc = "save" =>
          /\ wpc[Coordinator] = "idle"
          /\ total_saved = co_next - 1
          /\ appended["repositories"] = co_next - 1
    /\ CoordinatorFinished =>
          /\ total_saved = Len(snapshots)
          /\ appended["repositories"] = Len(snapshots)
          /\ co_flushes = 1
          /\ AllEmpty

\* C20 (as claimed): a run without access token, and a run in which
\* ClickHouseRepository.create fails, ends with a logged reason and an exit
\* status that is not 0.
C20_StartupFailureExitsNonZero ==
    (main_pc = "exited" /\ (~access_token \/ "ch_init" \in main_log)) =>
        (main_log # {} /\ exit_status # 0)


\* C21: in a run in which the probe of create fails no request is sent to
\* the GitHub API, neither the search request nor a commit request, and when
\* the run has ended the session of the scrapper is closed.
C21_NoCrawlAfterFailedProbe ==
    "ch_init" \in main_log =>
        /\ api_requests = 0
        /\ snapshots = <<>>
        /\ main_pc = "exited"
        /\ http_session = "closed"

\* C21 witness: a run with a token has ended on the failed probe.
C21_Witness ==
    /\ access_token
    /\ "ch_init" \in main_log
    /\ main_pc = "exited"
    /\ http_session = "closed"

\* close is running: its flush_all is to start or is awaiting an insert
InClose == main_pc \in {"close", "close_flush"}
\* a step in which close closes the session of the client, or fails to
ReleaseStep ==
    /\ ch_session = "open"
    /\ ch_session' = "closed" \/ "close_error" \in main_log' \ main_log

====
